---- MODULE Spec2Model ----
(***************************************************************************)
(* A model of label_crawler.py: the per-row pipeline of main() (lookup,    *)
(* locator extraction, HEAD probe, download, quality gate, full text       *)
(* extraction, record emission) and the pure helpers it calls.             *)
(*                                                                         *)
(* Strings are sequences of one-character strings.  Extracted PDF text is  *)
(* kept run-length encoded: a sequence of runs [c, n], n >= 1 characters   *)
(* of class c: "alpha" (str.isalpha), "sp" (blank or tab), "nl" (\n),      *)
(* "cr" (\r) or "other".                                                   *)
(* Results of the external calls (requests, pdfminer) are inputs chosen    *)
(* from small sets.                                                        *)
(***************************************************************************)
EXTENDS Integers, Sequences, FiniteSets, TLC

\* ------------------------------------------------------------------ bounds
MaxRuns == 3

\* ------------------------------------------------------------------ config
MIN_PDF_BYTES == 20000
MAX_PDF_BYTES == 40000000
MIN_EXTRACTED_CHARS == 400
\* MIN_ALPHA_RATIO = 0.35, in hundredths.  alpha / chars < 0.35 in binary
\* floating point agrees with alpha * 100 < 35 * chars for every text shorter
\* than 2^40 characters: a ratio other than 7/20 is further from 0.35 than
\* the rounding error of the division.
MIN_ALPHA_RATIO == 35

\* ------------------------------------------------------------------ text
Run(c, n) == [c |-> c, n |-> n]

\* the classes matched by \s and removed by str.strip()
IsWs(c) == c \in {"sp", "nl", "cr"}

RECURSIVE DropLeadingWs(_)
DropLeadingWs(t) ==
    IF t # <<>> /\ IsWs(Head(t).c) THEN DropLeadingWs(Tail(t)) ELSE t

RECURSIVE DropTrailingWs(_)
DropTrailingWs(t) ==
    IF t # <<>> /\ IsWs(t[Len(t)].c)
    THEN DropTrailingWs(SubSeq(t, 1, Len(t) - 1))
    ELSE t

\* str.strip()
StripText(t) == DropTrailingWs(DropLeadingWs(t))

\* re.sub(r"\s+", " ", text): every maximal run of whitespace becomes one space
RECURSIVE CollapseWs(_)
CollapseWs(t) ==
    IF t = <<>> THEN <<>>
    ELSE IF IsWs(Head(t).c)
         THEN <<Run("sp", 1)>> \o CollapseWs(DropLeadingWs(t))
         ELSE <<Head(t)>> \o CollapseWs(Tail(t))

\* len(text)
RECURSIVE TextLen(_)
TextLen(t) == IF t = <<>> THEN 0 ELSE Head(t).n + TextLen(Tail(t))

\* sum(1 for c in text if c.isalpha())
RECURSIVE AlphaCount(_)
AlphaCount(t) ==
    IF t = <<>> THEN 0
    ELSE (IF Head(t).c = "alpha" THEN Head(t).n ELSE 0) + AlphaCount(Tail(t))

\* ------------------------------------------------------------ quality gate
\* f"{code}={detail}"
Fmt(code, detail) == <<code, "=", detail>>

\* (ok, reason); sampled records whether extract_text was called
Verdict(ok, reason, sampled) == [ok |-> ok, reason |-> reason, sampled |-> sampled]

\* as QualityCheckWith, but the sample is extracted before the size is looked at
QualityCheckWith_SampleFirst(pdf, minChars, minRatio) ==
    LET nbytes == pdf.nbytes IN
    IF ~pdf.sample.ok
    THEN Verdict(FALSE, Fmt("pdf_text_extract_failed", pdf.sample.err), TRUE)
    ELSE IF nbytes < MIN_PDF_BYTES
    THEN Verdict(FALSE, Fmt("too_small_bytes", nbytes), TRUE)
    ELSE IF nbytes > MAX_PDF_BYTES
    THEN Verdict(FALSE, Fmt("too_large_bytes", nbytes), TRUE)
    ELSE LET text  == StripText(CollapseWs(pdf.sample.text))
             chars == TextLen(text)
             alpha == AlphaCount(text)
         IN  IF text = <<>>
             THEN Verdict(FALSE, <<"no_text_extracted">>, TRUE)
             ELSE IF chars < minChars
             THEN Verdict(FALSE, Fmt("low_text_chars", chars), TRUE)
             ELSE IF alpha * 100 < minRatio * chars
             THEN Verdict(FALSE, Fmt("low_alpha_ratio", <<alpha, chars>>), TRUE)
             ELSE Verdict(TRUE, <<"ok">>, TRUE)

\* as QualityCheckWith, but a failed extraction is reported by its message alone
QualityCheckWith_FreeText(pdf, minChars, minRatio) ==
    LET nbytes == pdf.nbytes IN
    IF nbytes < MIN_PDF_BYTES
    THEN Verdict(FALSE, Fmt("too_small_bytes", nbytes), FALSE)
    ELSE IF nbytes > MAX_PDF_BYTES
    THEN Verdict(FALSE, Fmt("too_large_bytes", nbytes), FALSE)
    ELSE IF ~pdf.sample.ok
    THEN Verdict(FALSE, <<pdf.sample.err>>, TRUE)
    ELSE LET text  == StripText(CollapseWs(pdf.sample.text))
             chars == TextLen(text)
             alpha == AlphaCount(text)
         IN  IF text = <<>>
             THEN Verdict(FALSE, <<"no_text_extracted">>, TRUE)
             ELSE IF chars < minChars
             THEN Verdict(FALSE, Fmt("low_text_chars", chars), TRUE)
             ELSE IF alpha * 100 < minRatio * chars
             \* the detail is the ratio before its rendering with two decimals
             THEN Verdict(FALSE, Fmt("low_alpha_ratio", <<alpha, chars>>), TRUE)
             ELSE Verdict(TRUE, <<"ok">>, TRUE)

\* as QualityCheckWith, but the ratio comparison is inverted
QualityCheckWith_RatioInverted(pdf, minChars, minRatio) ==
    LET nbytes == pdf.nbytes IN
    IF nbytes < MIN_PDF_BYTES
    THEN Verdict(FALSE, Fmt("too_small_bytes", nbytes), FALSE)
    ELSE IF nbytes > MAX_PDF_BYTES
    THEN Verdict(FALSE, Fmt("too_large_bytes", nbytes), FALSE)
    ELSE IF ~pdf.sample.ok
    THEN Verdict(FALSE, Fmt("pdf_text_extract_failed", pdf.sample.err), TRUE)
    ELSE LET text  == StripText(CollapseWs(pdf.sample.text))
             chars == TextLen(text)
             alpha == AlphaCount(text)
         IN  IF text = <<>>
             THEN Verdict(FALSE, <<"no_text_extracted">>, TRUE)
             ELSE IF chars < minChars
             THEN Verdict(FALSE, Fmt("low_text_chars", chars), TRUE)
             ELSE IF alpha * 100 > minRatio * chars
             \* the detail is the ratio before its rendering with two decimals
             THEN Verdict(FALSE, Fmt("low_alpha_ratio", <<alpha, chars>>), TRUE)
             ELSE Verdict(TRUE, <<"ok">>, TRUE)

\* quality_check_pdf with the two text thresholds as parameters.  pdf.sample is
\* the outcome of extract_text(bio, maxpages=QUALITY_CHECK_PAGES), the text of
\* the first two pages.
QualityCheckWith(pdf, minChars, minRatio) ==
    LET nbytes == pdf.nbytes IN
    IF nbytes < MIN_PDF_BYTES
    THEN Verdict(FALSE, Fmt("too_small_bytes", nbytes), FALSE)
    ELSE IF nbytes > MAX_PDF_BYTES
    THEN Verdict(FALSE, Fmt("too_large_bytes", nbytes), FALSE)
    ELSE IF ~pdf.sample.ok
    THEN Verdict(FALSE, Fmt("pdf_text_extract_failed", pdf.sample.err), TRUE)
    ELSE LET text  == StripText(CollapseWs(pdf.sample.text))
             chars == TextLen(text)
             alpha == AlphaCount(text)
         IN  IF text = <<>>
             THEN Verdict(FALSE, <<"no_text_extracted">>, TRUE)
             ELSE IF chars < minChars
             THEN Verdict(FALSE, Fmt("low_text_chars", chars), TRUE)
             ELSE IF alpha * 100 < minRatio * chars
             \* the detail is the ratio before its rendering with two decimals
             THEN Verdict(FALSE, Fmt("low_alpha_ratio", <<alpha, chars>>), TRUE)
             ELSE Verdict(TRUE, <<"ok">>, TRUE)

quality_check_pdf(pdf_bytes) ==
    QualityCheckWith(pdf_bytes, MIN_EXTRACTED_CHARS, MIN_ALPHA_RATIO)

\* ---------------------------------------------------------------- extractor
\* txt.replace("\r\n", "\n"): a \r directly before a \n disappears
RECURSIVE ReplaceCrLf(_)
ReplaceCrLf(t) ==
    IF Len(t) < 2 THEN t
    ELSE IF Head(t).c = "cr" /\ t[2].c = "nl"
         THEN (IF Head(t).n = 1 THEN <<>> ELSE <<Run("cr", Head(t).n - 1)>>)
              \o ReplaceCrLf(Tail(t))
         ELSE <<Head(t)>> \o ReplaceCrLf(Tail(t))

\* .replace("\r", "\n")
ReplaceCr(t) == [k \in 1..Len(t) |-> IF t[k].c = "cr" THEN Run("nl", t[k].n) ELSE t[k]]

\* re.sub(r"\n{3,}", "\n\n", txt): a maximal run of 3 or more \n becomes 2
RECURSIVE CollapseNl(_)
CollapseNl(t) ==
    IF t = <<>> THEN <<>>
    ELSE IF Head(t).c # "nl" THEN <<Head(t)>> \o CollapseNl(Tail(t))
    ELSE IF Len(t) >= 2 /\ t[2].c = "nl"
         THEN CollapseNl(<<Run("nl", Head(t).n + t[2].n)>> \o Tail(Tail(t)))
         ELSE <<Run("nl", IF Head(t).n >= 3 THEN 2 ELSE Head(t).n)>>
              \o CollapseNl(Tail(t))

\* pdf.full is the outcome of extract_text(bio); any exception gives "".
\* The four rewrites are applied one after the other, each to the value the
\* one before it produced.
extract_full_text(pdf_bytes) ==
    IF ~pdf_bytes.full.ok THEN <<>>
    ELSE CHOOSE txt \in
           {StripText(c) : c \in
              {CollapseNl(b) : b \in
                 {ReplaceCr(a) : a \in {ReplaceCrLf(pdf_bytes.full.text)}}}} : TRUE

\* ------------------------------------------------------------------ strings
IsSpace(ch) == ch \in {" ", "\t", "\n", "\r"}

RECURSIVE LStrip(_)
LStrip(s) == IF s # <<>> /\ IsSpace(Head(s)) THEN LStrip(Tail(s)) ELSE s

RECURSIVE RStrip(_)
RStrip(s) ==
    IF s # <<>> /\ IsSpace(s[Len(s)]) THEN RStrip(SubSeq(s, 1, Len(s) - 1)) ELSE s

\* str.strip()
Strip(s) == RStrip(LStrip(s))

\* re.sub(r"\s+", " ", s)
RECURSIVE CollapseSpaces(_)
CollapseSpaces(s) ==
    IF s = <<>> THEN <<>>
    ELSE IF IsSpace(Head(s)) THEN <<" ">> \o CollapseSpaces(LStrip(s))
    ELSE <<Head(s)>> \o CollapseSpaces(Tail(s))

clean_product_name(name) == CollapseSpaces(Strip(name))

\* ------------------------------------------------------------ python values
\* Every value carries its type in t; None is also JSON null.
None == [t |-> "none"]
JStr(s) == [t |-> "str", v |-> s]
JNum(n) == [t |-> "int", v |-> n]
JList(xs) == [t |-> "list", v |-> xs]
\* f: a function from keys to values
JDict(f) == [t |-> "dict", v |-> f]
Bytes(n, sample, full) == [t |-> "bytes", nbytes |-> n, sample |-> sample, full |-> full]

\* "not x"
Falsy(x) ==
    \/ x.t = "none"
    \/ x.t = "str" /\ x.v = <<>>
    \/ x.t = "int" /\ x.v = 0
    \/ x.t = "list" /\ x.v = <<>>
    \/ x.t = "dict" /\ DOMAIN x.v = {}
    \/ x.t = "bytes" /\ x.nbytes = 0

\* dict.get(k)
Get(d, k) == IF k \in DOMAIN d.v THEN d.v[k] ELSE None

\* isinstance(v, str) and v.strip()
Usable(v) == v.t = "str" /\ Strip(v.v) # <<>>

\* ----------------------------------------------------------------- resolver
\* safe_get_json: resp is the outcome of session.get; exc covers a transport
\* error or timeout, valid = FALSE a body r.json() cannot parse
safe_get_json(resp) ==
    IF resp.exc THEN None
    ELSE IF resp.status # 200 THEN None
    ELSE IF ~resp.valid THEN None
    ELSE resp.body

\* as FirstInFiles, but the value is returned as it came
RECURSIVE FirstInFiles_Raw(_)
FirstInFiles_Raw(pf_list) ==
    IF pf_list = <<>> THEN None
    ELSE LET pf == Head(pf_list) IN
         IF pf.t = "dict" /\ Usable(Get(pf, "pdffile"))
         THEN Get(pf, "pdffile")
         ELSE FirstInFiles_Raw(Tail(pf_list))

\* the loop over pf_list
RECURSIVE FirstInFiles(_)
FirstInFiles(pf_list) ==
    IF pf_list = <<>> THEN None
    ELSE LET pf == Head(pf_list) IN
         IF pf.t = "dict" /\ Usable(Get(pf, "pdffile"))
         THEN JStr(Strip(Get(pf, "pdffile").v))
         ELSE FirstInFiles(Tail(pf_list))

\* as FirstInItems, but pdffiles is looked at before the item's own pdffile
RECURSIVE FirstInItems_NestedFirst(_)
FirstInItems_NestedFirst(items) ==
    IF items = <<>> THEN None
    ELSE LET it == Head(items) IN
         IF it.t # "dict" THEN FirstInItems_NestedFirst(Tail(items))
         ELSE LET pf_list == Get(it, "pdffiles")
                  found == IF pf_list.t = "list" THEN FirstInFiles(pf_list.v) ELSE None
              IN  IF found.t # "none" THEN found
                  ELSE IF Usable(Get(it, "pdffile")) THEN JStr(Strip(Get(it, "pdffile").v))
                  ELSE FirstInItems_NestedFirst(Tail(items))

\* the loop over items
RECURSIVE FirstInItems(_)
FirstInItems(items) ==
    IF items = <<>> THEN None
    ELSE LET it == Head(items) IN
         IF it.t # "dict" THEN FirstInItems(Tail(items))
         ELSE IF Usable(Get(it, "pdffile")) THEN JStr(Strip(Get(it, "pdffile").v))
         ELSE LET pf_list == Get(it, "pdffiles")
                  found == IF pf_list.t = "list" THEN FirstInFiles(pf_list.v) ELSE None
              IN  IF found.t # "none" THEN found ELSE FirstInItems(Tail(items))

extract_pdffile(payload) ==
    IF payload.t # "dict" THEN None
    ELSE IF Usable(Get(payload, "pdffile")) THEN JStr(Strip(Get(payload, "pdffile").v))
    ELSE LET items == Get(payload, "items") IN
         IF items.t = "list" THEN FirstInItems(items.v) ELSE None

\* ------------------------------------------------------------------ fetcher
\* as head_content_length, but every status outside 200..299 is refused
head_content_length_Only2xx(resp) ==
    IF resp.exc THEN None
    ELSE IF resp.status < 200 \/ resp.status > 299 THEN None
    ELSE IF resp.cl.t = "none" THEN None
    ELSE IF resp.cl.t # "int" THEN None
    ELSE resp.cl

\* head_content_length: resp.cl is the Content-Length header, None when the
\* header is missing, a str that int() rejects (ValueError) or an int
head_content_length(resp) ==
    IF resp.exc THEN None
    ELSE IF resp.status >= 400 THEN None
    ELSE IF resp.cl.t = "none" THEN None
    ELSE IF resp.cl.t # "int" THEN None
    ELSE resp.cl

download_pdf(resp) ==
    IF resp.exc THEN None
    ELSE IF resp.status # 200 THEN None
    ELSE resp.content

\* ------------------------------------------------------------------- inputs
EPA_PDF_BASE == <<"https://www3.epa.gov/pesticides/chem_search/ppls/">>

\* rows of the CSV: epa_registration_number, product_name
RowValues ==
    { [reg |-> <<" ", " ">>,  name |-> <<"x">>],
      [reg |-> <<"7">>,       name |-> <<" ">>],
      [reg |-> <<" ", "8">>,  name |-> <<"a", " ", "\t", "b", " ">>] }

Outcome(ok, text) == [ok |-> ok, text |-> text, err |-> "e"]
GoodSample == Outcome(TRUE, <<Run("alpha", 140), Run("other", 260)>>)

\* bodies the document host can return
PipelineDocs ==
    { Bytes(0, GoodSample, Outcome(TRUE, <<Run("alpha", 1)>>)),
      Bytes(19999, GoodSample, Outcome(TRUE, <<Run("alpha", 1)>>)),
      Bytes(20000, Outcome(TRUE, <<Run("alpha", 140), Run("other", 261)>>),
            Outcome(TRUE, <<Run("alpha", 1)>>)),
      Bytes(20000, GoodSample,
            Outcome(TRUE, <<Run("nl", 1), Run("alpha", 140), Run("cr", 2),
                            Run("nl", 2), Run("other", 260), Run("sp", 1)>>)),
      Bytes(40000001, GoodSample, Outcome(TRUE, <<Run("alpha", 1)>>)),
      Bytes(40000000, GoodSample, Outcome(FALSE, <<>>)),
      Bytes(40000000, GoodSample, Outcome(TRUE, <<Run("cr", 1), Run("nl", 1)>>)) }

\* bodies the lookup service can return
Payloads ==
    { None,
      JDict(<<>>),
      JList(<<JStr(<<"a">>)>>),
      JDict([pdffile |-> JStr(<<" ">>),
             items |-> JList(<<JDict([pdffiles |-> JList(<<JDict([pdffile |-> JNum(5)])>>)])>>)]),
      JDict([pdffile |-> JStr(<<" ", "a">>)]),
      JDict([items |-> JList(<<JNum(1), JDict([pdffile |-> JStr(<<"a">>)])>>)]),
      JDict([items |-> JList(<<JDict([pdffile |-> JStr(<<" ">>),
                                      pdffiles |-> JList(<<JStr(<<"x">>),
                                                           JDict([pdffile |-> JStr(<<"b", " ">>)])>>)])>>)]) }

LookupResponses ==
    { [exc |-> TRUE, status |-> 0, valid |-> FALSE, body |-> None],
      [exc |-> FALSE, status |-> 404, valid |-> TRUE, body |-> JDict([pdffile |-> JStr(<<"a">>)])],
      [exc |-> FALSE, status |-> 200, valid |-> FALSE, body |-> None] }
    \cup { [exc |-> FALSE, status |-> 200, valid |-> TRUE, body |-> p] : p \in Payloads }

ProbeResponses ==
    { [exc |-> TRUE, status |-> 0, cl |-> None] }
    \cup { [exc |-> FALSE, status |-> s, cl |-> c] :
             s \in {200, 304, 404},
             c \in {None, JStr(<<"x">>), JNum(19999), JNum(20000), JNum(40000000),
                    JNum(40000001)} }

DownloadResponses ==
    { [exc |-> TRUE, status |-> 0, content |-> None],
      [exc |-> FALSE, status |-> 404, content |-> Bytes(20000, GoodSample, GoodSample)] }
    \cup { [exc |-> FALSE, status |-> 200, content |-> d] : d \in PipelineDocs }

\* -------------------------------------------------------------------- state
VARIABLES
    pc,            \* position in main(): loop, lookup, probe, download, gate,
                   \* extract, sleep, write, done; aborted after a
                   \* KeyboardInterrupt
    rows,          \* the rows of the CSV file
    page_limit,    \* None or an int
    nread,         \* rows the reader has yielded
    processed, added, skipped,
    results,       \* list of records
    written,       \* content of OUTPUT_JSON, None before json.dump
    reg, product_name, pdffile, pdf_url, cl, pdf_bytes,   \* locals of the loop body
    trace,         \* history: the calls made so far, per row
    origin,        \* history: origin[k] is the row results[k] was built from
    hint,          \* history: what head_content_length returned in the step
                   \* just taken, None after any other step
    served,        \* what the host answers to a download of pdf_url, fixed
                   \* from the probe until the row is finished, else None
    qpc, qdoc, qthr, qverdict,  \* the quality gate applied on its own
    hpc, harg, hres             \* a helper applied on its own: its argument
                                \* and what it returned

pvars == <<pc, rows, page_limit, nread, processed, added, skipped, results,
           written, reg, product_name, pdffile, pdf_url, cl, pdf_bytes, trace,
           origin, hint, served>>
qvars == <<qpc, qdoc, qthr, qverdict>>
hvars == <<hpc, harg, hres>>
vars == <<pvars, qvars, hvars>>

MaxRows == 2
MaxLimit == 2

RECURSIVE SeqsUpTo(_, _)
SeqsUpTo(S, n) ==
    IF n = 0 THEN {<<>>}
    ELSE LET shorter == SeqsUpTo(S, n - 1) IN
         shorter \cup {Append(s, x) : s \in {q \in shorter : Len(q) = n - 1}, x \in S}

\* a call made for row i and whether its result lets the row go on
Ev(i, op, ok) == [i |-> i, op |-> op, ok |-> ok]

\* a reported size that main() refuses
SizeOutOfBounds(size) ==
    size.t # "none" /\ (size.v < MIN_PDF_BYTES \/ size.v > MAX_PDF_BYTES)

PipelineIdle ==
    /\ pc = "loop" /\ nread = 0 /\ processed = 0 /\ added = 0 /\ skipped = 0
    /\ results = <<>> /\ written = None
    /\ reg = <<>> /\ product_name = <<>> /\ pdffile = None /\ pdf_url = <<>>
    /\ cl = None /\ pdf_bytes = None
    /\ trace = <<>> /\ origin = <<>> /\ hint = None /\ served = None

QualityIdle ==
    /\ qpc = "off" /\ qdoc = None /\ qthr = <<>> /\ qverdict = <<>>

HelperIdle ==
    /\ hpc = "off" /\ harg = None /\ hres = None

Init ==
    /\ rows \in SeqsUpTo(RowValues, MaxRows)
    /\ page_limit \in {None} \cup {JNum(n) : n \in 0..MaxLimit}
    /\ PipelineIdle
    /\ QualityIdle
    /\ HelperIdle

\* ------------------------------------------------------------------ actions
\* The locals of the loop body are dead once a row is finished (each is
\* assigned again before it is read); they are reset so that finished rows
\* leave equal states.
ResetLocals ==
    /\ reg' = <<>> /\ product_name' = <<>> /\ pdffile' = None /\ pdf_url' = <<>>
    /\ cl' = None /\ pdf_bytes' = None

\* as SkipRow, but the skip is not counted
SkipRow_NoCount(i, events) ==
    /\ skipped' = skipped
    /\ trace' = trace \o events \o <<Ev(i, "skip", TRUE)>>
    /\ pc' = "loop"
    /\ ResetLocals
    /\ UNCHANGED <<added, results, origin>>

\* skipped += 1; continue
SkipRow(i, events) ==
    /\ skipped' = skipped + 1
    /\ trace' = trace \o events \o <<Ev(i, "skip", TRUE)>>
    /\ pc' = "loop"
    /\ ResetLocals
    /\ UNCHANGED <<added, results, origin>>

\* as ReadRow, but the cap is compared with >
ReadRow_OffByOne ==
    /\ pc = "loop"
    /\ IF nread = Len(rows)
       THEN /\ pc' = "write"
            /\ UNCHANGED <<nread, processed, added, skipped, results, origin,
                           reg, product_name, pdffile, pdf_url, cl, pdf_bytes, trace>>
       ELSE /\ nread' = nread + 1
            /\ IF page_limit.t # "none" /\ processed > page_limit.v
               THEN /\ pc' = "write"
                    /\ UNCHANGED <<processed, added, skipped, results, origin,
                                   reg, product_name, pdffile, pdf_url, cl, pdf_bytes, trace>>
               ELSE LET row == rows[nread + 1]
                        i == nread + 1
                    IN  /\ processed' = processed + 1
                        /\ IF Strip(row.reg) = <<>>
                           THEN SkipRow(i, <<Ev(i, "read", TRUE)>>)
                           ELSE /\ reg' = Strip(row.reg)
                                /\ product_name' = clean_product_name(row.name)
                                /\ trace' = Append(trace, Ev(i, "read", TRUE))
                                /\ pc' = "lookup"
                                /\ UNCHANGED <<added, skipped, results, origin,
                                               pdffile, pdf_url, cl, pdf_bytes>>
    /\ hint' = None
    /\ served' = None
    /\ UNCHANGED <<rows, page_limit, written, qvars, hvars>>

\* as ReadRow, but processed is counted after the identifier check
ReadRow_CountsLate ==
    /\ pc = "loop"
    /\ IF nread = Len(rows)
       THEN /\ pc' = "write"
            /\ UNCHANGED <<nread, processed, added, skipped, results, origin,
                           reg, product_name, pdffile, pdf_url, cl, pdf_bytes, trace>>
       ELSE /\ nread' = nread + 1
            /\ IF page_limit.t # "none" /\ processed >= page_limit.v
               THEN /\ pc' = "write"
                    /\ UNCHANGED <<processed, added, skipped, results, origin,
                                   reg, product_name, pdffile, pdf_url, cl, pdf_bytes, trace>>
               ELSE LET row == rows[nread + 1]
                        i == nread + 1
                    IN  /\ IF Strip(row.reg) = <<>>
                           THEN /\ processed' = processed
                                /\ SkipRow(i, <<Ev(i, "read", TRUE)>>)
                           ELSE /\ processed' = processed + 1
                                /\ reg' = Strip(row.reg)
                                /\ product_name' = clean_product_name(row.name)
                                /\ trace' = Append(trace, Ev(i, "read", TRUE))
                                /\ pc' = "lookup"
                                /\ UNCHANGED <<added, skipped, results, origin,
                                               pdffile, pdf_url, cl, pdf_bytes>>
    /\ hint' = None
    /\ served' = None
    /\ UNCHANGED <<rows, page_limit, written, qvars, hvars>>

\* as ReadRow, but the identifier is compared before it is stripped
ReadRow_NoStrip ==
    /\ pc = "loop"
    /\ IF nread = Len(rows)
       THEN /\ pc' = "write"
            /\ UNCHANGED <<nread, processed, added, skipped, results, origin,
                           reg, product_name, pdffile, pdf_url, cl, pdf_bytes, trace>>
       ELSE /\ nread' = nread + 1
            /\ IF page_limit.t # "none" /\ processed >= page_limit.v
               THEN /\ pc' = "write"
                    /\ UNCHANGED <<processed, added, skipped, results, origin,
                                   reg, product_name, pdffile, pdf_url, cl, pdf_bytes, trace>>
               ELSE LET row == rows[nread + 1]
                        i == nread + 1
                    IN  /\ processed' = processed + 1
                        /\ IF row.reg = <<>>
                           THEN SkipRow(i, <<Ev(i, "read", TRUE)>>)
                           ELSE /\ reg' = Strip(row.reg)
                                /\ product_name' = clean_product_name(row.name)
                                /\ trace' = Append(trace, Ev(i, "read", TRUE))
                                /\ pc' = "lookup"
                                /\ UNCHANGED <<added, skipped, results, origin,
                                               pdffile, pdf_url, cl, pdf_bytes>>
    /\ hint' = None
    /\ served' = None
    /\ UNCHANGED <<rows, page_limit, written, qvars, hvars>>

\* lines 228-240: the loop head, the row cap, the identifier
ReadRow ==
    /\ pc = "loop"
    /\ IF nread = Len(rows)
       THEN /\ pc' = "write"
            /\ UNCHANGED <<nread, processed, added, skipped, results, origin,
                           reg, product_name, pdffile, pdf_url, cl, pdf_bytes, trace>>
       ELSE /\ nread' = nread + 1
            /\ IF page_limit.t # "none" /\ processed >= page_limit.v
               THEN /\ pc' = "write"
                    /\ UNCHANGED <<processed, added, skipped, results, origin,
                                   reg, product_name, pdffile, pdf_url, cl, pdf_bytes, trace>>
               ELSE LET row == rows[nread + 1]
                        i == nread + 1
                    IN  /\ processed' = processed + 1
                        /\ IF Strip(row.reg) = <<>>
                           THEN SkipRow(i, <<Ev(i, "read", TRUE)>>)
                           ELSE /\ reg' = Strip(row.reg)
                                /\ product_name' = clean_product_name(row.name)
                                /\ trace' = Append(trace, Ev(i, "read", TRUE))
                                /\ pc' = "lookup"
                                /\ UNCHANGED <<added, skipped, results, origin,
                                               pdffile, pdf_url, cl, pdf_bytes>>
    /\ hint' = None
    /\ served' = None
    /\ UNCHANGED <<rows, page_limit, written, qvars, hvars>>

\* as LookupStep, but a transport error leaves safe_get_json as an exception
LookupStep_Unguarded ==
    /\ pc = "lookup"
    /\ \E resp \in LookupResponses :
         LET payload == safe_get_json(resp)
             found == extract_pdffile(payload)
             i == nread
             looked == Ev(i, "lookup", ~Falsy(payload))
             located == Ev(i, "locate", ~Falsy(found))
         IN  IF resp.exc
             THEN /\ pc' = "crashed"
                  /\ trace' = Append(trace, looked)
                  /\ UNCHANGED <<added, skipped, results, origin,
                                 reg, product_name, pdffile, pdf_url, cl, pdf_bytes>>
             ELSE IF Falsy(payload)
             THEN SkipRow(i, <<looked>>)
             ELSE IF Falsy(found)
             THEN SkipRow(i, <<looked, located>>)
             ELSE /\ pdffile' = found
                  /\ pdf_url' = EPA_PDF_BASE \o found.v
                  /\ trace' = trace \o <<looked, located>>
                  /\ pc' = "probe"
                  /\ UNCHANGED <<added, skipped, results, origin,
                                 reg, product_name, cl, pdf_bytes>>
    /\ hint' = None
    /\ served' = None
    /\ UNCHANGED <<rows, page_limit, nread, processed, written, qvars, hvars>>

\* lines 242-257: safe_get_json, extract_pdffile, the document URL
LookupStep ==
    /\ pc = "lookup"
    /\ \E resp \in LookupResponses :
         LET payload == safe_get_json(resp)
             found == extract_pdffile(payload)
             i == nread
             looked == Ev(i, "lookup", ~Falsy(payload))
             located == Ev(i, "locate", ~Falsy(found))
         IN  IF Falsy(payload)
             THEN SkipRow(i, <<looked>>)
             ELSE IF Falsy(found)
             THEN SkipRow(i, <<looked, located>>)
             ELSE /\ pdffile' = found
                  /\ pdf_url' = EPA_PDF_BASE \o found.v
                  /\ trace' = trace \o <<looked, located>>
                  /\ pc' = "probe"
                  /\ UNCHANGED <<added, skipped, results, origin,
                                 reg, product_name, cl, pdf_bytes>>
    /\ hint' = None
    /\ served' = None
    /\ UNCHANGED <<rows, page_limit, nread, processed, written, qvars, hvars>>

\* as ProbeStep, but a row whose size is not known is skipped
ProbeStep_Required ==
    /\ pc = "probe"
    /\ \E resp \in ProbeResponses, doc \in DownloadResponses :
         LET size == head_content_length(resp)
             i == nread
             probed == Ev(i, "probe", ~SizeOutOfBounds(size))
         IN  /\ hint' = size
             /\ served' = doc
             /\ IF size.t = "none" \/ size.v < MIN_PDF_BYTES
                THEN SkipRow(i, <<probed>>)
                ELSE IF size.t # "none" /\ size.v > MAX_PDF_BYTES
                THEN SkipRow(i, <<probed>>)
                ELSE /\ cl' = size
                     /\ trace' = Append(trace, probed)
                     /\ pc' = "download"
                     /\ UNCHANGED <<added, skipped, results, origin,
                                    reg, product_name, pdffile, pdf_url, pdf_bytes>>
    /\ UNCHANGED <<rows, page_limit, nread, processed, written, qvars, hvars>>

\* lines 259-269: the HEAD size check
ProbeStep ==
    /\ pc = "probe"
    /\ \E resp \in ProbeResponses, doc \in DownloadResponses :
         LET size == head_content_length(resp)
             i == nread
             probed == Ev(i, "probe", ~SizeOutOfBounds(size))
         IN  /\ hint' = size
             /\ served' = doc
             /\ IF size.t # "none" /\ size.v < MIN_PDF_BYTES
                THEN SkipRow(i, <<probed>>)
                ELSE IF size.t # "none" /\ size.v > MAX_PDF_BYTES
                THEN SkipRow(i, <<probed>>)
                ELSE /\ cl' = size
                     /\ trace' = Append(trace, probed)
                     /\ pc' = "download"
                     /\ UNCHANGED <<added, skipped, results, origin,
                                    reg, product_name, pdffile, pdf_url, pdf_bytes>>
    /\ UNCHANGED <<rows, page_limit, nread, processed, written, qvars, hvars>>

\* as DownloadStep, but a failed download is tried once more
DownloadStep_Retry ==
    /\ pc = "download"
    /\ LET resp == served IN
         LET content == download_pdf(resp)
             i == nread
             downloaded == Ev(i, "download", ~Falsy(content))
         IN  IF Falsy(content) /\ ~\E k \in 1..Len(trace) : trace[k] = downloaded
             THEN /\ trace' = Append(trace, downloaded)
                  /\ pc' = "download"
                  /\ UNCHANGED <<added, skipped, results, origin,
                                 reg, product_name, pdffile, pdf_url, cl, pdf_bytes>>
             ELSE IF Falsy(content)
             THEN SkipRow(i, <<downloaded>>)
             ELSE /\ pdf_bytes' = content
                  /\ trace' = Append(trace, downloaded)
                  /\ pc' = "gate"
                  /\ UNCHANGED <<added, skipped, results, origin,
                                 reg, product_name, pdffile, pdf_url, cl>>
    /\ hint' = None
    /\ served' = IF pc' = "loop" THEN None ELSE served
    /\ UNCHANGED <<rows, page_limit, nread, processed, written, qvars, hvars>>

\* lines 271-275: the download
DownloadStep ==
    /\ pc = "download"
    /\ LET resp == served IN
         LET content == download_pdf(resp)
             i == nread
             downloaded == Ev(i, "download", ~Falsy(content))
         IN  IF Falsy(content)
             THEN SkipRow(i, <<downloaded>>)
             ELSE /\ pdf_bytes' = content
                  /\ trace' = Append(trace, downloaded)
                  /\ pc' = "gate"
                  /\ UNCHANGED <<added, skipped, results, origin,
                                 reg, product_name, pdffile, pdf_url, cl>>
    /\ hint' = None
    /\ served' = IF pc' = "loop" THEN None ELSE served
    /\ UNCHANGED <<rows, page_limit, nread, processed, written, qvars, hvars>>

\* as GateStep, but the verdict is not looked at
GateStep_Advisory ==
    /\ pc = "gate"
    /\ LET verdict == quality_check_pdf(pdf_bytes)
           i == nread
           gated == Ev(i, "gate", verdict.ok)
       IN  IF FALSE
           THEN SkipRow(i, <<gated>>)
           ELSE /\ trace' = Append(trace, gated)
                /\ pc' = "extract"
                /\ UNCHANGED <<added, skipped, results, origin,
                               reg, product_name, pdffile, pdf_url, cl, pdf_bytes>>
    /\ hint' = None
    /\ served' = IF pc' = "loop" THEN None ELSE served
    /\ UNCHANGED <<rows, page_limit, nread, processed, written, qvars, hvars>>

\* as GateStep, but a document whose size is not the probed size is refused
GateStep_Reconcile ==
    /\ pc = "gate"
    /\ LET verdict == quality_check_pdf(pdf_bytes)
           i == nread
           gated == Ev(i, "gate", verdict.ok)
       IN  IF ~verdict.ok \/ (cl.t # "none" /\ cl.v # pdf_bytes.nbytes)
           THEN SkipRow(i, <<gated>>)
           ELSE /\ trace' = Append(trace, gated)
                /\ pc' = "extract"
                /\ UNCHANGED <<added, skipped, results, origin,
                               reg, product_name, pdffile, pdf_url, cl, pdf_bytes>>
    /\ hint' = None
    /\ served' = IF pc' = "loop" THEN None ELSE served
    /\ UNCHANGED <<rows, page_limit, nread, processed, written, qvars, hvars>>

\* lines 277-282: the quality gate
GateStep ==
    /\ pc = "gate"
    /\ LET verdict == quality_check_pdf(pdf_bytes)
           i == nread
           gated == Ev(i, "gate", verdict.ok)
       IN  IF ~verdict.ok
           THEN SkipRow(i, <<gated>>)
           ELSE /\ trace' = Append(trace, gated)
                /\ pc' = "extract"
                /\ UNCHANGED <<added, skipped, results, origin,
                               reg, product_name, pdffile, pdf_url, cl, pdf_bytes>>
    /\ hint' = None
    /\ served' = IF pc' = "loop" THEN None ELSE served
    /\ UNCHANGED <<rows, page_limit, nread, processed, written, qvars, hvars>>

\* as ExtractStep, but an empty text is emitted too
ExtractStep_KeepsEmpty ==
    /\ pc = "extract"
    /\ LET text == extract_full_text(pdf_bytes)
           i == nread
           record == [title |-> IF product_name # <<>> THEN product_name ELSE reg,
                      link |-> pdf_url,
                      epa_registration_number |-> reg,
                      state |-> "NA",
                      content |-> <<[content_text |-> text]>>]
           extracted == Ev(i, "extract", text # <<>>)
       IN  IF FALSE
           THEN SkipRow(i, <<extracted>>)
           ELSE /\ results' = Append(results, record)
                /\ origin' = Append(origin, i)
                /\ added' = added + 1
                /\ trace' = trace \o <<extracted, Ev(i, "emit", TRUE)>>
                /\ pc' = "sleep"
                /\ UNCHANGED <<skipped, reg, product_name, pdffile, pdf_url, cl, pdf_bytes>>
    /\ hint' = None
    /\ served' = IF pc' = "loop" THEN None ELSE served
    /\ UNCHANGED <<rows, page_limit, nread, processed, written, qvars, hvars>>

\* as ExtractStep, but a link already in results is not added again
ExtractStep_Dedup ==
    /\ pc = "extract"
    /\ LET text == extract_full_text(pdf_bytes)
           i == nread
           record == [title |-> IF product_name # <<>> THEN product_name ELSE reg,
                      link |-> pdf_url,
                      epa_registration_number |-> reg,
                      state |-> "NA",
                      content |-> <<[content_text |-> text]>>]
           extracted == Ev(i, "extract", text # <<>>)
       IN  IF text = <<>>
           THEN SkipRow(i, <<extracted>>)
           ELSE /\ results' = IF \E k \in 1..Len(results) : results[k].link = record.link
                                THEN results ELSE Append(results, record)
                /\ origin' = IF \E k \in 1..Len(results) : results[k].link = record.link
                               THEN origin ELSE Append(origin, i)
                /\ added' = added + 1
                /\ trace' = trace \o <<extracted, Ev(i, "emit", TRUE)>>
                /\ pc' = "sleep"
                /\ UNCHANGED <<skipped, reg, product_name, pdffile, pdf_url, cl, pdf_bytes>>
    /\ hint' = None
    /\ served' = IF pc' = "loop" THEN None ELSE served
    /\ UNCHANGED <<rows, page_limit, nread, processed, written, qvars, hvars>>

\* as ExtractStep, but the title is the product name even when it is empty
ExtractStep_NoFallback ==
    /\ pc = "extract"
    /\ LET text == extract_full_text(pdf_bytes)
           i == nread
           record == [title |-> product_name,
                      link |-> pdf_url,
                      epa_registration_number |-> reg,
                      state |-> "NA",
                      content |-> <<[content_text |-> text]>>]
           extracted == Ev(i, "extract", text # <<>>)
       IN  IF text = <<>>
           THEN SkipRow(i, <<extracted>>)
           ELSE /\ results' = Append(results, record)
                /\ origin' = Append(origin, i)
                /\ added' = added + 1
                /\ trace' = trace \o <<extracted, Ev(i, "emit", TRUE)>>
                /\ pc' = "sleep"
                /\ UNCHANGED <<skipped, reg, product_name, pdffile, pdf_url, cl, pdf_bytes>>
    /\ hint' = None
    /\ served' = IF pc' = "loop" THEN None ELSE served
    /\ UNCHANGED <<rows, page_limit, nread, processed, written, qvars, hvars>>

\* lines 284-303: full extraction and the output record
ExtractStep ==
    /\ pc = "extract"
    /\ LET text == extract_full_text(pdf_bytes)
           i == nread
           record == [title |-> IF product_name # <<>> THEN product_name ELSE reg,
                      link |-> pdf_url,
                      epa_registration_number |-> reg,
                      state |-> "NA",
                      content |-> <<[content_text |-> text]>>]
           extracted == Ev(i, "extract", text # <<>>)
       IN  IF text = <<>>
           THEN SkipRow(i, <<extracted>>)
           ELSE /\ results' = Append(results, record)
                /\ origin' = Append(origin, i)
                /\ added' = added + 1
                /\ trace' = trace \o <<extracted, Ev(i, "emit", TRUE)>>
                /\ pc' = "sleep"
                /\ UNCHANGED <<skipped, reg, product_name, pdffile, pdf_url, cl, pdf_bytes>>
    /\ hint' = None
    /\ served' = IF pc' = "loop" THEN None ELSE served
    /\ UNCHANGED <<rows, page_limit, nread, processed, written, qvars, hvars>>

\* lines 305-306: time.sleep(0.1), reached after an added record only
SleepStep ==
    /\ pc = "sleep"
    /\ trace' = Append(trace, Ev(nread, "sleep", TRUE))
    /\ pc' = "loop"
    /\ ResetLocals
    /\ hint' = None
    /\ served' = None
    /\ UNCHANGED <<rows, page_limit, nread, processed, added, skipped, results,
                   origin, written, qvars, hvars>>

\* lines 308-310: json.dump(results, out)
WriteStep ==
    /\ pc = "write"
    /\ written' = JList(results)
    /\ pc' = "done"
    /\ hint' = None
    /\ served' = None
    /\ UNCHANGED <<rows, page_limit, nread, processed, added, skipped, results,
                   origin, reg, product_name, pdffile, pdf_url, cl, pdf_bytes, trace, qvars, hvars>>

Next ==
    \/ ReadRow
    \/ LookupStep
    \/ ProbeStep
    \/ DownloadStep
    \/ GateStep
    \/ ExtractStep
    \/ SleepStep
    \/ WriteStep

Spec == Init /\ [][Next]_vars

\* A KeyboardInterrupt (Ctrl-C) can be raised at any point of main(). It is
\* not an Exception, so the handlers of the helpers let it through, and main()
\* has no handler of its own: the process ends where it is. Raised while
\* json.dump runs, it leaves OUTPUT_JSON untouched or truncated.
Cancel ==
    /\ pc \notin {"done", "aborted"}
    /\ pc' = "aborted"
    /\ written' \in IF pc = "write" THEN {None, [t |-> "partial"]} ELSE {written}
    /\ hint' = None
    /\ served' = None
    /\ UNCHANGED <<rows, page_limit, nread, processed, added, skipped, results,
                   origin, reg, product_name, pdffile, pdf_url, cl, pdf_bytes,
                   trace, qvars, hvars>>

CNext == Next \/ Cancel

SpecCancel == Init /\ [][CNext]_vars

\* Every step of main() ends: the requests carry timeouts and the loop has no
\* other wait, so a run that can take a step takes one.
FairSpec == Spec /\ WF_vars(Next)

\* ------------------------------------------------- the quality gate on its own
QRuns ==
    { Run("alpha", 139), Run("alpha", 140), Run("other", 260), Run("other", 261),
      Run("sp", 3), Run("nl", 1) }

QSizes == {MIN_PDF_BYTES - 1, MIN_PDF_BYTES, MAX_PDF_BYTES, MAX_PDF_BYTES + 1}

QSamples == {Outcome(FALSE, <<>>)} \cup {Outcome(TRUE, t) : t \in SeqsUpTo(QRuns, MaxRuns)}

QDocs == {Bytes(n, s, Outcome(FALSE, <<>>)) : n \in QSizes, s \in QSamples}

\* values of MIN_EXTRACTED_CHARS and MIN_ALPHA_RATIO (in hundredths) to try
CharThresholds == {0, MIN_EXTRACTED_CHARS, MIN_EXTRACTED_CHARS + 1}
RatioThresholds == {0, MIN_ALPHA_RATIO, MIN_ALPHA_RATIO + 1}

QInit ==
    /\ PipelineIdle
    /\ rows = <<>> /\ page_limit = None
    /\ qpc = "doc"
    /\ qdoc \in QDocs
    /\ qthr = <<>>
    /\ qverdict = <<>>
    /\ HelperIdle

\* quality_check_pdf(qdoc) with the thresholds of the source
QCheck ==
    /\ qpc = "doc"
    /\ qverdict' = <<quality_check_pdf(qdoc)>>
    /\ qpc' = "checked"
    /\ UNCHANGED <<qdoc, qthr, pvars, hvars>>

\* the same document under other values of the two text thresholds
QTune ==
    /\ qpc = "checked"
    /\ \E c \in CharThresholds, r \in RatioThresholds :
         /\ qthr' = <<[chars |-> c, ratio |-> r]>>
         /\ qverdict' = Append(qverdict, QualityCheckWith(qdoc, c, r))
    /\ qpc' = "tuned"
    /\ UNCHANGED <<qdoc, pvars, hvars>>

\* the same document after the thresholds were lowered
QShrink ==
    /\ qpc = "tuned"
    /\ \E c \in CharThresholds, r \in RatioThresholds :
         /\ c <= qthr[1].chars
         /\ r <= qthr[1].ratio
         /\ qthr' = Append(qthr, [chars |-> c, ratio |-> r])
         /\ qverdict' = Append(qverdict, QualityCheckWith(qdoc, c, r))
    /\ qpc' = "shrunk"
    /\ UNCHANGED <<qdoc, pvars, hvars>>

QNext == QCheck \/ QTune \/ QShrink

SpecQuality == QInit /\ [][QNext]_vars

\* --------------------------------------------------- the resolver on its own
\* extract_pdffile is applied to payloads of every shape it distinguishes.
\* The size of a payload is the number of its items plus the number of the
\* entries of their pdffiles lists.
MaxPayloadSize == 3

\* a dict that has key k unless v is None
WithKey(k, v) == IF v.t = "none" THEN [x \in {} |-> None] ELSE (k :> v)

TopFields == {None, JStr(<<"t">>), JStr(<<" ">>)}
ItemFields == {None, JStr(<<"d", " ">>), JNum(5)}
FileEntries ==
    { JDict("pdffile" :> JStr(<<" ", "n">>)),
      JDict("pdffile" :> JStr(<<>>)),
      JStr(<<"x">>) }

\* the entries of "items" that stand for k units of size
ItemsOfSize(k) ==
    IF k = 1
    THEN {JStr(<<"x">>)} \cup
         {JDict(WithKey("pdffile", d) @@ WithKey("pdffiles", l)) :
            d \in ItemFields, l \in {None, JList(<<>>), JStr(<<"x">>)}}
    ELSE {JDict(WithKey("pdffile", d) @@ ("pdffiles" :> JList(fs))) :
            d \in ItemFields,
            fs \in {q \in SeqsUpTo(FileEntries, k - 1) : Len(q) = k - 1}}

\* the lists of items of size n at most
RECURSIVE ItemLists(_)
ItemLists(n) ==
    {<<>>} \cup
    UNION {{<<it>> \o rest : it \in ItemsOfSize(k), rest \in ItemLists(n - k)} :
             k \in 1..n}

ResolverPayloads ==
    {JDict(WithKey("pdffile", t) @@ ("items" :> JList(its))) :
       t \in TopFields, its \in ItemLists(MaxPayloadSize)}
    \cup {JDict(WithKey("pdffile", t) @@ WithKey("items", its)) :
            t \in TopFields,
            its \in {None, JStr(<<"t">>), JDict("pdffile" :> JStr(<<"t">>))}}
    \cup {None, JStr(<<"t">>), JNum(5), JList(<<JDict("pdffile" :> JStr(<<"t">>))>>)}

\* what may stand where a locator is expected
LocatorValues ==
    { JStr(<<"a">>), JStr(<<" ", "b", "\t">>), JStr(<<"c", " ", "d">>),
      JStr(<<" ", "\n">>), JStr(<<>>), JNum(5), None,
      JList(<<JStr(<<"a">>)>>), JDict("pdffile" :> JStr(<<"a">>)) }

\* the three places the response may carry the locator in
ShapeTop(v) == JDict("pdffile" :> v)
ShapeItem(v) == JDict("items" :> JList(<<JDict("pdffile" :> v)>>))
ShapeNested(v) ==
    JDict("items" :> JList(<<JDict("pdffiles" :> JList(<<JDict("pdffile" :> v)>>))>>))

RInit ==
    /\ PipelineIdle
    /\ rows = <<>> /\ page_limit = None
    /\ QualityIdle
    /\ hpc = "payload"
    /\ harg \in ResolverPayloads
    /\ hres = None

\* extract_pdffile(harg)
Resolve ==
    /\ hpc = "payload"
    /\ hres' = extract_pdffile(harg)
    /\ hpc' = "resolved"
    /\ UNCHANGED <<harg, pvars, qvars>>

\* extract_pdffile of one value in each of the three places
ResolveShapes ==
    /\ hpc = "resolved"
    /\ \E v \in LocatorValues :
         /\ harg' = v
         /\ hres' = JList(<<extract_pdffile(ShapeTop(v)),
                           extract_pdffile(ShapeItem(v)),
                           extract_pdffile(ShapeNested(v))>>)
    /\ hpc' = "shaped"
    /\ UNCHANGED <<pvars, qvars>>

RNext == Resolve \/ ResolveShapes

SpecResolve == RInit /\ [][RNext]_vars

\* ------------------------------------------------------ the probe on its own
\* head_content_length is applied to the outcomes of session.head: a status
\* of every class, left after the redirects were followed, and the
\* Content-Length header missing, not a number, or a number
HeadStatuses == {200, 204, 206, 300, 304, 399, 400, 404, 500, 503}
HeadHeaders ==
    { None, JStr(<<"x">>), JNum(0), JNum(MIN_PDF_BYTES - 1), JNum(MIN_PDF_BYTES),
      JNum(MAX_PDF_BYTES), JNum(MAX_PDF_BYTES + 1) }

HeadResponses ==
    {[exc |-> TRUE, status |-> 0, cl |-> None]}
    \cup [exc : {FALSE}, status : HeadStatuses, cl : HeadHeaders]

HInit ==
    /\ PipelineIdle
    /\ rows = <<>> /\ page_limit = None
    /\ QualityIdle
    /\ hpc = "response"
    /\ harg \in HeadResponses
    /\ hres = None

\* head_content_length(session, url), harg the outcome of session.head
Probe ==
    /\ hpc = "response"
    /\ hres' = head_content_length(harg)
    /\ hpc' = "probed"
    /\ UNCHANGED <<harg, pvars, qvars>>

SpecProbe == HInit /\ [][Probe]_vars

\* ------------------------------------------------------------------- claims
StageOrder == <<"lookup", "locate", "probe", "download", "gate", "extract">>
StageOps == {StageOrder[k] : k \in 1..Len(StageOrder)}

\* the calls made for row i, in the order they were made
CallsOf(i) ==
    LET IsCall(e) == e.i = i /\ e.op \in StageOps IN SelectSeq(trace, IsCall)

Happened(e) == \E k \in 1..Len(trace) : trace[k] = e

\* resolve, fetch, quality gate and extract all succeeded for row i, the last
\* with a text that is not empty
AllStagesOk(i) == \A op \in StageOps : Happened(Ev(i, op, TRUE))

RecordsOf(i) == {k \in 1..Len(origin) : origin[k] = i}

Min(a, b) == IF a <= b THEN a ELSE b

\* C1: in every state and for every row, results holds a record of the row
\* exactly when lookup, locator, probe, download, quality gate and extraction
\* all succeeded for it and the extracted text was not empty; it then holds
\* one such record, carrying the row's identifier.
C1_RecordIffAllStages ==
    /\ Len(results) = Len(origin)
    /\ \A i \in 1..Len(rows) :
         /\ Cardinality(RecordsOf(i)) = (IF AllStagesOk(i) THEN 1 ELSE 0)
         /\ \A k \in RecordsOf(i) :
              /\ results[k].epa_registration_number = Strip(rows[i].reg)
              /\ results[k].content[1].content_text # <<>>

\* a finished run with one row emitted and one row dropped by the extractor
C1_Witness ==
    /\ pc = "done"
    /\ Len(results) = 1
    /\ \E i \in 1..Len(rows) : Happened(Ev(i, "extract", FALSE))

\* C2 as stated: added + skipped = processed and added <= processed in every
\* state.
C2_CountersAlways ==
    /\ added + skipped = processed
    /\ added <= processed

\* C2 as amended: added + skipped = processed whenever no row is in flight
\* (at the loop head, during the pacing sleep, at and after the write);
\* while a row is in flight it has been counted in processed only, so
\* added + skipped = processed - 1; added <= processed in every state.
C2_CountersBetweenRows ==
    /\ pc \in {"loop", "sleep", "write", "done"} => added + skipped = processed
    /\ pc \in {"lookup", "probe", "download", "gate", "extract"}
         => added + skipped = processed - 1
    /\ added <= processed

C2_Witness ==
    /\ pc = "done" /\ added = 1 /\ skipped = 1 /\ processed = 2

\* C3: the calls made for a row are a prefix of lookup, locate, probe,
\* download, gate, extract; every call but the last one made succeeded; a
\* call that failed is followed at once by the skip of its row.
C3_StagesInOrder ==
    /\ \A i \in 1..Len(rows) :
         LET c == CallsOf(i) IN
         /\ Len(c) <= Len(StageOrder)
         /\ \A k \in 1..Len(c) :
              /\ c[k].op = StageOrder[k]
              /\ k < Len(c) => c[k].ok
    /\ \A k \in 1..Len(trace) :
         (trace[k].op \in StageOps /\ ~trace[k].ok)
           => /\ k < Len(trace)
              /\ trace[k + 1] = Ev(trace[k].i, "skip", TRUE)

\* a row rejected by the quality gate: no extraction was called for it
C3_Witness ==
    \E i \in 1..Len(rows) :
      /\ Happened(Ev(i, "gate", FALSE))
      /\ Happened(Ev(i, "skip", TRUE))
      /\ Len(CallsOf(i)) = 5

RowsToProcess ==
    IF page_limit.t = "none" THEN Len(rows) ELSE Min(page_limit.v, Len(rows))

C4_Completed ==
    /\ pc = "done"
    /\ written = JList(results)
    /\ processed = RowsToProcess
    /\ \A i \in 1..processed :
         Happened(Ev(i, "skip", TRUE)) \/ Happened(Ev(i, "emit", TRUE))

\* C4: every run reaches the end of main(): the rows within the cap have all
\* been skipped or emitted, whatever failed on them, and results has been
\* written.
C4_RunCompletes == <>C4_Completed

\* a finished run in which one row failed at the lookup and one at the download
C4_Witness ==
    /\ C4_Completed
    /\ \E i, j \in 1..Len(rows) :
         /\ Happened(Ev(i, "lookup", FALSE))
         /\ Happened(Ev(j, "download", FALSE))

\* C5: results keeps the order of the rows and every emitted row has its own
\* record: of two emitted rows the earlier one's record comes first, also
\* when both resolve to the same document.
C5_OrderNoDedup ==
    /\ Len(results) = Len(origin)
    /\ \A k, l \in 1..Len(origin) : k < l => origin[k] < origin[l]
    /\ \A k \in 1..Len(origin) :
         results[k].epa_registration_number = Strip(rows[origin[k]].reg)
    /\ \A i, j \in 1..Len(rows) :
         (i < j /\ Happened(Ev(i, "emit", TRUE)) /\ Happened(Ev(j, "emit", TRUE)))
           => \E k, l \in 1..Len(results) : k < l /\ origin[k] = i /\ origin[l] = j

\* two rows emitted with the same link
C5_Witness ==
    /\ Len(results) = 2
    /\ results[1].link = results[2].link
    /\ results[1].epa_registration_number # results[2].epa_registration_number

\* a step that ends with the skip of a row
SkipTaken ==
    /\ Len(trace') > Len(trace)
    /\ trace'[Len(trace')].op = "skip"

\* C6: every step that skips a row leaves results and added unchanged and
\* adds exactly 1 to skipped.
C6_SkipEffect ==
    [][SkipTaken => /\ results' = results
                    /\ added' = added
                    /\ skipped' = skipped + 1]_vars

\* a row skipped because the lookup failed, after a row was emitted
C6_Witness ==
    /\ Len(results) = 1 /\ added = 1 /\ skipped = 1
    /\ trace[Len(trace)].op = "skip"
    /\ trace[Len(trace) - 1] = Ev(2, "lookup", FALSE)

\* C7: with a cap N on M rows no more than min(N, M) rows are counted, no call
\* is made for a later row, and at the end exactly the first min(N, M) rows
\* have been counted and taken through the loop body; without a cap all M.
C7_RowCap ==
    /\ processed <= RowsToProcess
    /\ \A k \in 1..Len(trace) : trace[k].i <= RowsToProcess
    /\ pc \in {"write", "done"} =>
         /\ processed = RowsToProcess
         /\ {trace[k].i : k \in {n \in 1..Len(trace) : trace[n].op = "read"}}
              = 1..RowsToProcess

\* a finished run with a cap of 1 on two rows
C7_Witness ==
    /\ pc = "done"
    /\ page_limit.t = "int" /\ page_limit.v = 1
    /\ Len(rows) = 2
    /\ processed = 1

ReasonCodes ==
    {"too_small_bytes", "too_large_bytes", "pdf_text_extract_failed",
     "no_text_extracted", "low_text_chars", "low_alpha_ratio", "ok"}

\* the checks of the gate in the order of the specification, TRUE where the
\* document fails the check
GateFailures(pdf) ==
    LET text  == StripText(CollapseWs(pdf.sample.text))
        chars == TextLen(text)
        alpha == AlphaCount(text)
    IN  << pdf.nbytes < MIN_PDF_BYTES,
           pdf.nbytes > MAX_PDF_BYTES,
           ~pdf.sample.ok,
           text = <<>>,
           chars < MIN_EXTRACTED_CHARS,
           alpha * 100 < MIN_ALPHA_RATIO * chars >>

GateCodes ==
    <<"too_small_bytes", "too_large_bytes", "pdf_text_extract_failed",
      "no_text_extracted", "low_text_chars", "low_alpha_ratio">>

\* C8: the verdict names the first check, in the fixed order, that the
\* document fails, and is ok when it fails none; a value equal to its
\* threshold passes; when a size check fails no text is extracted.
C8_FirstFailureWins ==
    qpc # "doc" =>
      LET fails == GateFailures(qdoc)
          failing == {k \in 1..Len(fails) : fails[k]}
          first == CHOOSE k \in failing : \A j \in failing : k <= j
          v == qverdict[1]
      IN  /\ v.ok <=> failing = {}
          /\ failing = {} => Head(v.reason) = "ok"
          /\ failing # {} => Head(v.reason) = GateCodes[first]
          /\ (fails[1] \/ fails[2]) => ~v.sampled

\* a document one byte short whose sample would pass every text check
C8_Witness ==
    /\ qpc # "doc"
    /\ qdoc.nbytes = MIN_PDF_BYTES - 1
    /\ qdoc.sample = GoodSample
    /\ Head(qverdict[1].reason) = "too_small_bytes"
    /\ ~qverdict[1].sampled

\* C9 as stated: the reason of every verdict is one of the seven codes.
C9_ReasonInVocabulary ==
    \A k \in 1..Len(qverdict) : qverdict[k].reason \in {<<c>> : c \in ReasonCodes}

\* C9 as amended: the reason of every verdict starts with one of the seven
\* codes; ok and no_text_extracted stand alone, each of the other five is
\* followed by "=" and a detail (the byte count, the error text, the
\* character count, the ratio).
C9_ReasonStartsWithCode ==
    \A k \in 1..Len(qverdict) :
      LET r == qverdict[k].reason IN
      /\ Head(r) \in ReasonCodes
      /\ IF Head(r) \in {"ok", "no_text_extracted"}
         THEN Len(r) = 1
         ELSE Len(r) = 3 /\ r[2] = "="

C9_Witness ==
    /\ qpc = "checked"
    /\ qverdict[1].reason = Fmt("low_text_chars", MIN_EXTRACTED_CHARS - 1)

\* C10: a document accepted under thresholds (c, r) is accepted under any
\* (c', r') with c' <= c and r' <= r.
C10_ThresholdMonotonic ==
    qpc = "shrunk" => (qverdict[2].ok => qverdict[3].ok)

\* a document accepted at the thresholds of the source and again at (0, 0)
C10_Witness ==
    /\ qpc = "shrunk"
    /\ qthr[1] = [chars |-> MIN_EXTRACTED_CHARS, ratio |-> MIN_ALPHA_RATIO]
    /\ qthr[2] = [chars |-> 0, ratio |-> 0]
    /\ qverdict[2].ok /\ qverdict[3].ok

\* the values extract_pdffile looks at, in the order it looks at them
RECURSIVE FileCandidates(_)
FileCandidates(pf_list) ==
    IF pf_list = <<>> THEN <<>>
    ELSE (IF Head(pf_list).t = "dict" THEN <<Get(Head(pf_list), "pdffile")>> ELSE <<>>)
         \o FileCandidates(Tail(pf_list))

RECURSIVE ItemCandidates(_)
ItemCandidates(items) ==
    IF items = <<>> THEN <<>>
    ELSE LET it == Head(items) IN
         (IF it.t # "dict" THEN <<>>
          ELSE <<Get(it, "pdffile")>> \o
               (IF Get(it, "pdffiles").t = "list"
                THEN FileCandidates(Get(it, "pdffiles").v) ELSE <<>>))
         \o ItemCandidates(Tail(items))

Candidates(payload) ==
    IF payload.t # "dict" THEN <<>>
    ELSE <<Get(payload, "pdffile")>> \o
         (IF Get(payload, "items").t = "list"
          THEN ItemCandidates(Get(payload, "items").v) ELSE <<>>)

UsableCandidates(payload) == SelectSeq(Candidates(payload), Usable)

\* C11: the resolver returns the first usable locator in priority order, the
\* top-level field, then per item its own field and then its file list, with
\* the surrounding whitespace removed; it returns None when no place of the
\* expected shape holds a usable locator.
C11_FirstUsableInOrder ==
    hpc = "resolved" =>
        hres = IF UsableCandidates(harg) = <<>> THEN None
               ELSE JStr(Strip(UsableCandidates(harg)[1].v))

\* a locator found in a file list, after places that hold no usable locator
\* and before an item whose own field holds another locator
C11_Witness ==
    /\ hpc = "resolved"
    /\ hres = JStr(<<"n">>)
    /\ Len(UsableCandidates(harg)) >= 2
    /\ Len(Candidates(harg)) >= 4
    /\ ~Usable(Candidates(harg)[1]) /\ ~Usable(Candidates(harg)[2])

\* C12: a locator value gives the same result as the top-level field, as the
\* field of an item and inside the file list of an item.
C12_ShapeTolerance ==
    hpc = "shaped" =>
        /\ hres.v[1] = hres.v[2]
        /\ hres.v[2] = hres.v[3]

\* a locator with surrounding whitespace, found in all three places
C12_Witness ==
    /\ hpc = "shaped"
    /\ harg = JStr(<<" ", "b", "\t">>)
    /\ hres.v = <<JStr(<<"b">>), JStr(<<"b">>), JStr(<<"b">>)>>

\* C13: when the probe yields None for a resolved row (transport error, error
\* status, no size header), the row is not skipped at the probe: the step
\* goes on to the download.
C13_ProbeAdvisory ==
    [][(pc = "probe" /\ hint'.t = "none") =>
         /\ pc' = "download"
         /\ skipped' = skipped
         /\ trace' = Append(trace, Ev(nread, "probe", TRUE))]_vars

\* a row at the download after a probe that yielded None
C13_Witness ==
    /\ pc = "download"
    /\ hint = None
    /\ cl = None
    /\ trace[Len(trace)] = Ev(nread, "probe", TRUE)

\* C14, as stated: the probe yields None for every status that is not 2xx, and
\* a size only for a 2xx response that carries a size header.
C14_Only2xxYieldsSize ==
    hpc = "probed" =>
        /\ (harg.exc \/ harg.status < 200 \/ harg.status > 299) => hres = None
        /\ hres # None =>
             ~harg.exc /\ harg.status \in 200..299 /\ harg.cl # None

\* C14, amended: the probe yields None for a transport error, for a status of
\* 400 or more and for a size header that is missing or not a number; every
\* other response, of a status below 400, yields the number in its header.
C14_ErrorStatusYieldsNone ==
    hpc = "probed" =>
        hres = IF ~harg.exc /\ harg.status < 400 /\ harg.cl.t = "int"
               THEN harg.cl ELSE None

\* a 304 response with a size header yields the size
C14_Witness ==
    /\ hpc = "probed"
    /\ harg = [exc |-> FALSE, status |-> 304, cl |-> JNum(MIN_PDF_BYTES)]
    /\ hres = JNum(MIN_PDF_BYTES)

\* how far an event lies in the life of its row: read, the stages in their
\* order, the terminal skip or emit, the pause after it
Rank(op) ==
    CASE op = "read" -> 0
      [] op = "lookup" -> 1
      [] op = "locate" -> 2
      [] op = "probe" -> 3
      [] op = "download" -> 4
      [] op = "gate" -> 5
      [] op = "extract" -> 6
      [] op \in {"skip", "emit"} -> 7
      [] op = "sleep" -> 8

\* C15: no retry and no way back. Each event is followed by an event of a
\* later row or by one that lies further in the life of the same row: each of
\* lookup, probe and download is made at most once per row, the row only
\* advances, and a row that was skipped or emitted is not processed again.
C15_NoRetryNoReturn ==
    \A k \in 1..(Len(trace) - 1) :
        \/ trace[k].i < trace[k + 1].i
        \/ trace[k].i = trace[k + 1].i /\ Rank(trace[k].op) < Rank(trace[k + 1].op)

\* a run that ended with one row emitted and a later row skipped after its
\* only download failed
C15_Witness ==
    /\ pc = "done"
    /\ Happened(Ev(1, "emit", TRUE))
    /\ Happened(Ev(2, "download", FALSE))
    /\ Happened(Ev(2, "skip", TRUE))

\* C16: rows are processed one at a time, and after a row was skipped or
\* emitted the pause is taken before the lookup of a later row is made.
C16_PacedBetweenRows ==
    \A k, l \in 1..Len(trace) :
        k < l =>
            /\ trace[k].i <= trace[l].i
            /\ (trace[k].op \in {"skip", "emit"} /\ trace[l].op = "lookup") =>
                  \E s \in (k + 1)..(l - 1) : trace[s].op = "sleep"

\* C17: after a cancellation every row that was read has been skipped or
\* emitted and the records gathered so far are in the output file.
C17_CancelFlushes ==
    pc = "aborted" =>
        /\ \A i \in 1..Len(rows) :
              Happened(Ev(i, "read", TRUE)) =>
                  Happened(Ev(i, "skip", TRUE)) \/ Happened(Ev(i, "emit", TRUE))
        /\ written = JList(results)

\* C18: every record has the cleaned product name of its row as title, or
\* the registration number when that name is empty; the registration number of
\* the row; state "NA"; a content list of one element; and, as seen right
\* after it was added, the link EPA_PDF_BASE + the resolved pdffile and the
\* full extracted text as that element.
C18_RecordFields ==
    /\ \A k \in 1..Len(results) :
          LET r == results[k]
              row == rows[origin[k]]
          IN  /\ DOMAIN r = {"title", "link", "epa_registration_number", "state", "content"}
              /\ r.title = IF clean_product_name(row.name) # <<>>
                           THEN clean_product_name(row.name) ELSE Strip(row.reg)
              /\ r.epa_registration_number = Strip(row.reg)
              /\ r.state = "NA"
              /\ Len(r.content) = 1
              /\ DOMAIN r.content[1] = {"content_text"}
              /\ r.link[1] = EPA_PDF_BASE[1]
    /\ pc = "sleep" =>
          /\ results[Len(results)].link = EPA_PDF_BASE \o pdffile.v
          /\ results[Len(results)].content[1].content_text = extract_full_text(pdf_bytes)

\* two records: one titled by its cleaned name, one by its registration number
C18_Witness ==
    /\ pc = "sleep"
    /\ Len(results) = 2
    /\ \E k \in 1..2 : results[k].title = <<"a", " ", "b">>
    /\ \E k \in 1..2 : results[k].title = <<"7">> /\ results[k].epa_registration_number = <<"7">>
    /\ results[2].link = EPA_PDF_BASE \o <<"a">>
    /\ Len(results[2].content[1].content_text) > 1

\* the document served would pass the download, the gate and the extraction
WouldEmit(resp) ==
    LET content == download_pdf(resp) IN
    /\ ~Falsy(content)
    /\ quality_check_pdf(content).ok
    /\ extract_full_text(content) # <<>>

\* C19, as stated: whatever size the probe reported, a probed row is emitted
\* exactly when the document the host serves passes, the probe's size having
\* no say.
C19_DownloadGoverns ==
    [][(pc \in {"probe", "download", "gate", "extract"} /\ pc' \in {"loop", "sleep"}) =>
         (pc' = "sleep" <=> WouldEmit(IF pc = "probe" THEN served' ELSE served))]_vars

\* C19, amended: a row is skipped at the probe exactly when the reported size
\* is below MIN_PDF_BYTES or above MAX_PDF_BYTES, whatever the document is; a
\* row that got past the probe is emitted exactly when the document served
\* passes, whether or not its size is the reported one.
C19_DownloadGovernsPastProbe ==
    [][/\ pc = "probe" => (pc' = "loop" <=> SizeOutOfBounds(hint'))
       /\ (pc \in {"download", "gate", "extract"} /\ pc' \in {"loop", "sleep"}) =>
             (pc' = "sleep" <=> WouldEmit(served))]_vars

\* a row emitted although the probe reported another size than the one of
\* the document downloaded
C19_Witness ==
    /\ pc = "sleep"
    /\ cl = JNum(MAX_PDF_BYTES)
    /\ pdf_bytes.nbytes = MIN_PDF_BYTES
    /\ Happened(Ev(nread, "emit", TRUE))

EventsOf(op) == {k \in 1..Len(trace) : trace[k].op = op}

\* C20: a row whose registration number is empty or whitespace is dropped
\* without lookup, probe or download; it counts as processed and as skipped
\* and gives no record.
C20_BlankIdentifierDropped ==
    /\ \A i \in 1..Len(rows) :
          (Strip(rows[i].reg) = <<>> /\ Happened(Ev(i, "read", TRUE))) =>
              /\ \A k \in 1..Len(trace) :
                    trace[k].i = i => trace[k].op \in {"read", "skip"}
              /\ Happened(Ev(i, "skip", TRUE))
              /\ RecordsOf(i) = {}
    /\ processed = Cardinality(EventsOf("read"))
    /\ skipped = Cardinality(EventsOf("skip"))

\* a finished run over a row of blanks and a row that gave a record
C20_Witness ==
    /\ pc = "done"
    /\ Len(rows) = 2
    /\ rows[1].reg = <<" ", " ">>
    /\ processed = 2 /\ skipped = 1 /\ added = 1
    /\ trace[1] = Ev(1, "read", TRUE) /\ trace[2] = Ev(1, "skip", TRUE)
    /\ trace[3].i = 2

====
